---- MODULE Spec2Model ----
(***************************************************************************)
(* Model of the ride-service coordination core: the trips table and its    *)
(* transitions (trips/service.go), the Kafka topics and consumer loops     *)
(* (pkg/kafka), the matcher (matching/matcher.go), the Redis GEO set of    *)
(* driver positions (pkg/redis) and the websocket hub (tracking).          *)
(*                                                                         *)
(* Granularity.  One SQL statement, one Redis command and one Kafka write  *)
(* is one atomic step.  A call that makes a single statement (Request,     *)
(* AssignDriver, Start, the driver.assigned handler) is one action: what   *)
(* it does before and after that statement touches nothing shared.  End    *)
(* reads the row and later writes it, so it is two actions with the call   *)
(* in flight in between.  PostgreSQL is taken to be available (no Exec     *)
(* error); Kafka writes and Redis commands may fail.  In the hub a section *)
(* under h.mu is one step, and a websocket write is two: it begins by      *)
(* taking the connection's mutex and ends when ws.WriteJSON returns.  The  *)
(* slices of Hub.conns are headers over shared arrays, as Go's are.        *)
(*                                                                         *)
(* Units.  Distances are metres, a float fare is in thousandths of a rupee *)
(* (12 rupees per km is 12 thousandths per metre), the fare column is      *)
(* DECIMAL(12,2) and holds hundredths.  No transition reads a timestamp,   *)
(* so a timestamp column is either NULL or set.                            *)
(***************************************************************************)
EXTENDS Integers, Sequences, FiniteSets, Bags, TLC

\* ---- bounds ----
MaxEndCalls  == 2   \* End calls in flight at once
MaxRedeliver == 1   \* duplicate deliveries on driver.assigned
MaxMalformed == 1   \* payloads on ride.requested that are not JSON events
MaxConns     == 3   \* websocket connections made to the hub
MaxBroadcasts == 2  \* BroadcastLocation calls in progress at once

\* ---- program constants ----
StatusRequested      == "REQUESTED"
StatusMatching       == "MATCHING"
StatusDriverAssigned == "DRIVER_ASSIGNED"
StatusStarted        == "STARTED"
StatusCompleted      == "COMPLETED"
StatusCancelled      == "CANCELLED"

BaseFareMilli  == 50000   \* 50.0 rupees
PerMetreMilli  == 12      \* 12.0 rupees per km
MatchRadiusM   == 5000    \* 5.0 km

TopicRideRequested  == "ride.requested"
TopicDriverAssigned == "driver.assigned"
TopicTripCompleted  == "trip.completed"

ErrAssign   == "trip not found or invalid state for assignment"
ErrStart    == "trip not found or not in DRIVER_ASSIGNED state"
ErrNotFound == "trip not found"
ErrEnd      == "trip not in STARTED state"
NoErr       == "nil"

\* ---- finite universes of inputs ----
TripOrder == <<"t1", "t2">>       \* the ids uuid.New() hands out, in order
TripIds   == {TripOrder[i] : i \in 1..Len(TripOrder)}
GhostTrip == "00000000"          \* an id no row ever has (test 15e-15g)
CallTrips == TripIds \cup {GhostTrip}
RideTrips == {TripOrder[1], GhostTrip}   \* the ids called when one ride runs
Riders    == {"r1"}
Drivers   == {"d1", "d2"}
NoDriver  == "NULL"
NoFare    == -1
NoTime    == "NULL"
TimeNow   == "set"          \* any value of time.Now()

\* Coordinates of test_all.sh: pickup and drop of the E2E trip (section 14),
\* the driver position pushed next to that pickup, and the Delhi pickup of
\* section 12, which is far from all of them.
Points == {"Blr", "Drop", "Drv", "Delhi"}

\* positions the drivers push: next to the Blr pickup, and far away
DriverPoints == {"Drv", "Delhi"}

\* TripRequest bodies: a trip from Blr to Drop and a trip that ends where
\* it starts.
TripRequests == { [pickup |-> "Blr", drop |-> "Drop"],
                  [pickup |-> "Blr", drop |-> "Blr"] }

\* EndRequest.DistanceKm in metres: absent, zero, negative, 25.5 km.
NoDist     == -999999
DistInputs == {NoDist, 0, -1000, 25500}

\* haversineKm on Points, in metres (values of the Go formula, R = 6371).
PointRank(p) == CASE p = "Blr" -> 1 [] p = "Drv" -> 2 [] p = "Drop" -> 3 [] OTHER -> 4

HavTable(a, b) ==
    CASE a = "Blr"  /\ b = "Drv"   -> 62
      [] a = "Blr"  /\ b = "Drop"  -> 5185
      [] a = "Blr"  /\ b = "Delhi" -> 1739802
      [] a = "Drv"  /\ b = "Drop"  -> 5193
      [] a = "Drv"  /\ b = "Delhi" -> 1739759
      [] a = "Drop" /\ b = "Delhi" -> 1743922
      [] OTHER -> 0

haversineKm(a, b) ==
    IF a = b THEN 0
    ELSE IF PointRank(a) < PointRank(b) THEN HavTable(a, b) ELSE HavTable(b, a)

VARIABLES
    trips,          \* the trips table: id -> row
    ends,           \* End calls between their SELECT and their UPDATE
    goPub,          \* publish goroutines started and not yet finished
    rideRequested,  \* topic ride.requested
    driverAssigned, \* topic driver.assigned
    tripCompleted,  \* topic trip.completed, which nothing here consumes:
                    \* the events it holds, in no order
    mOff, mCur,     \* matching-group: next offset, message being handled
    daOff, daCur,   \* trip-driver-assigned group: next offset, message
    redelivered,    \* duplicate deliveries so far
    daRes,          \* what the driver.assigned handler last returned
    geo,            \* Redis GEO set driver:locations
    nearby,         \* the last GetNearbyDrivers call made for a client and
                    \* what it returned
    zremoved,       \* history: the drivers a ZREM took out and no GEOADD
                    \* has put back since
    zremRes,        \* the last RemoveDriverLocation call and what it
                    \* returned
    hubConns,       \* Hub.conns: trip id -> slice header (array, len)
    backing,        \* the arrays the slices of Hub.conns point into
    sockets,        \* the websocket connections HandleWS has upgraded
    bcasts,         \* BroadcastLocation calls in progress
    connMu,         \* safeConn.mu of each connection: the broadcast holding it
    hubMu,          \* Hub.mu: the broadcasts holding it for reading
    ctxDone,        \* main's context was cancelled
    resp,           \* outcome of the last HTTP call that returned
    statusLog       \* history: the status values each row has held

vars == <<trips, ends, goPub, rideRequested, driverAssigned, tripCompleted,
          mOff, mCur, daOff, daCur, redelivered, daRes, geo, nearby, zremoved,
          zremRes, hubConns, backing, sockets, bcasts, connMu, hubMu, ctxDone,
          resp, statusLog>>

ledgerVars == <<trips, ends, resp, statusLog>>
busVars    == <<rideRequested, driverAssigned, tripCompleted, goPub>>
matchVars  == <<mOff, mCur>>
daVars     == <<daOff, daCur, redelivered, daRes>>
geoVars    == <<geo, nearby, zremoved, zremRes>>
hubVars    == <<hubConns, backing, sockets, bcasts, connMu, hubMu>>
procVars   == <<ctxDone>>

\* websocket connections HandleWS upgrades, numbered in the order they come
ConnIds == 1..MaxConns

\* BroadcastLocation calls that can be in progress together
BcastSlots == 1..MaxBroadcasts

NilConn  == 0
Unlocked == 0
NilSlice == [arr |-> 0, len |-> 0]
NoSocket == [trip |-> "none", st |-> "none"]

Absent == "absent"
Idle   == [pc |-> "idle"]
NoResp == [op |-> "none", trip |-> "none", err |-> NoErr]
NoCall == [op |-> "none"]

Init ==
    /\ trips = <<>>
    /\ ends = EmptyBag
    /\ goPub = EmptyBag
    /\ rideRequested = <<>>
    /\ driverAssigned = <<>>
    /\ tripCompleted = EmptyBag
    /\ mOff = 1 /\ mCur = Idle
    /\ daOff = 1 /\ daCur = Idle
    /\ redelivered = 0
    /\ daRes = NoErr
    /\ geo = [d \in Drivers |-> Absent]
    /\ nearby = NoCall
    /\ zremoved = {}
    /\ zremRes = NoCall
    /\ hubConns = <<>>
    /\ backing = <<>>
    /\ sockets = [c \in ConnIds |-> NoSocket]
    /\ bcasts = [b \in BcastSlots |-> Idle]
    /\ connMu = [c \in ConnIds |-> Unlocked]
    /\ hubMu = {}
    /\ ctxDone = FALSE
    /\ resp = NoResp
    /\ statusLog = <<>>

\* ---- the trips table ----

\* NewTrip were the row to be inserted as MATCHING
NewTrip_Matching(riderID, req) ==
    [rider |-> riderID, pickup |-> req.pickup, drop |-> req.drop,
     driver |-> NoDriver, fare |-> NoFare, status |-> StatusMatching,
     startedAt |-> NoTime, completedAt |-> NoTime]

\* the row Request inserts; driver_id, fare, started_at and completed_at are
\* NULL.  requested_at and created_at are written here and read by no
\* transition; the model leaves them out.
NewTrip(riderID, req) ==
    [rider |-> riderID, pickup |-> req.pickup, drop |-> req.drop,
     driver |-> NoDriver, fare |-> NoFare, status |-> StatusRequested,
     startedAt |-> NoTime, completedAt |-> NoTime]

\* uuid.New(): an id no row has; which one is immaterial
FreshId == TripOrder[Cardinality(DOMAIN trips) + 1]

\* statusLog after the table became tbl: a new row starts its log, a row
\* whose status differs from the last logged one extends it
Logged(tbl) ==
    [t \in DOMAIN tbl |->
        IF t \notin DOMAIN statusLog THEN <<tbl[t].status>>
        ELSE IF statusLog[t][Len(statusLog[t])] = tbl[t].status THEN statusLog[t]
        ELSE Append(statusLog[t], tbl[t].status)]

\* AssignWhere were the status list to include DRIVER_ASSIGNED
AssignWhere_AlsoAssigned(tbl, tripID) ==
    /\ tripID \in DOMAIN tbl
    /\ tbl[tripID].status \in {StatusRequested, StatusMatching, StatusDriverAssigned}

\* AssignWhere were the statement to select by id alone
AssignWhere_IdOnly(tbl, tripID) == tripID \in DOMAIN tbl

\* WHERE id=$3 AND status IN ($4,$5)
AssignWhere(tbl, tripID) ==
    /\ tripID \in DOMAIN tbl
    /\ tbl[tripID].status \in {StatusRequested, StatusMatching}

\* AssignUpdate were the SET list to leave out driver_id
AssignUpdate_StatusOnly(tbl, tripID, driverID) ==
    IF AssignWhere(tbl, tripID)
    THEN [tbl EXCEPT ![tripID].status = StatusDriverAssigned]
    ELSE tbl

\* UPDATE trips SET driver_id=$1, status=$2 WHERE id=$3 AND status IN ($4,$5)
AssignUpdate(tbl, tripID, driverID) ==
    IF AssignWhere(tbl, tripID)
    THEN [tbl EXCEPT ![tripID].driver = driverID,
                     ![tripID].status = StatusDriverAssigned]
    ELSE tbl

\* StartWhere were the statement to select by id alone
StartWhere_IdOnly(tbl, tripID) == tripID \in DOMAIN tbl

\* WHERE id=$3 AND status=$4
StartWhere(tbl, tripID) ==
    /\ tripID \in DOMAIN tbl
    /\ tbl[tripID].status = StatusDriverAssigned

\* StartUpdate were the SET list to leave out started_at
StartUpdate_NoStartedAt(tbl, tripID, at) ==
    IF StartWhere(tbl, tripID)
    THEN [tbl EXCEPT ![tripID].status = StatusStarted]
    ELSE tbl

\* UPDATE trips SET status=$1, started_at=$2 WHERE id=$3 AND status=$4
StartUpdate(tbl, tripID, at) ==
    IF StartWhere(tbl, tripID)
    THEN [tbl EXCEPT ![tripID].status = StatusStarted,
                     ![tripID].startedAt = at]
    ELSE tbl

\* EndDistance were the test distKm >= 0
EndDistance_ZeroIsExplicit(distKm, trip) ==
    IF distKm # NoDist /\ distKm >= 0 THEN distKm
    ELSE haversineKm(trip.pickup, trip.drop)

\* the distance End charges for
EndDistance(distKm, trip) ==
    IF distKm # NoDist /\ distKm > 0 THEN distKm
    ELSE haversineKm(trip.pickup, trip.drop)

\* EndFare were base and rate exchanged
EndFare_Exchanged(km) == PerMetreMilli * 1000 + km * (BaseFareMilli \div 1000)

\* fare := 50.0 + km*12.0
EndFare(km) == BaseFareMilli + km * PerMetreMilli

\* a float written to the DECIMAL(12,2) column fare
ToDecimal2(milli) == (milli + 5) \div 10

\* UPDATE trips SET status=$1, fare=$2, completed_at=$3 WHERE id=$4
EndUpdate(tbl, tripID, fare, at) ==
    IF tripID \in DOMAIN tbl
    THEN [tbl EXCEPT ![tripID].status = StatusCompleted,
                     ![tripID].fare = ToDecimal2(fare),
                     ![tripID].completedAt = at]
    ELSE tbl

Response(o, t, e) == [op |-> o, trip |-> t, err |-> e]

\* a goroutine that will publish ev to topic
Go(topic, ev) == SetToBag({[topic |-> topic, ev |-> ev]})

\* Service.Request
Request(riderID, req) ==
    /\ Cardinality(DOMAIN trips) < Len(TripOrder)
    /\ LET id  == FreshId
           tbl == [t \in DOMAIN trips \cup {id} |->
                      IF t = id THEN NewTrip(riderID, req) ELSE trips[t]]
       IN /\ trips' = tbl
          /\ statusLog' = Logged(tbl)
          /\ goPub' = goPub (+) Go(TopicRideRequested,
                         [trip |-> id, rider |-> riderID,
                          pickup |-> req.pickup, drop |-> req.drop])
          /\ resp' = Response("request", id, NoErr)
    /\ UNCHANGED <<ends, rideRequested, driverAssigned, tripCompleted,
                   matchVars, daVars, geoVars, hubVars, procVars>>

\* Service.AssignDriver
AssignDriver(tripID, driverID) ==
    /\ LET tbl == AssignUpdate(trips, tripID, driverID)
       IN /\ trips' = tbl
          /\ statusLog' = Logged(tbl)
          /\ resp' = Response("assign", tripID,
                        IF AssignWhere(trips, tripID) THEN NoErr ELSE ErrAssign)
    /\ UNCHANGED <<ends, busVars, matchVars, daVars, geoVars, hubVars,
                   procVars>>

\* Service.Start
Start(tripID) ==
    /\ LET tbl == StartUpdate(trips, tripID, TimeNow)
       IN /\ trips' = tbl
          /\ statusLog' = Logged(tbl)
          /\ resp' = Response("start", tripID,
                        IF StartWhere(trips, tripID) THEN NoErr ELSE ErrStart)
    /\ UNCHANGED <<ends, busVars, matchVars, daVars, geoVars, hubVars,
                   procVars>>

\* EndAllowed were a COMPLETED row let through as well
EndAllowed_OrCompleted(trip) == trip.status \in {StatusStarted, StatusCompleted}

\* the check End makes on the row it read
EndAllowed(trip) == trip.status = StatusStarted

\* an End call that has read its row: the row as read and the distance
EndCall(trip, km, snap) == [trip |-> trip, km |-> km, snap |-> snap]

\* Service.End, lines 119-136: GetByID, the status check, distance and fare
EndRead(tripID, distKm) ==
    /\ BagCardinality(ends) < MaxEndCalls
    /\ IF tripID \notin DOMAIN trips
       THEN /\ resp' = Response("end", tripID, ErrNotFound)
            /\ ends' = ends
       ELSE IF ~EndAllowed(trips[tripID])
       THEN /\ resp' = Response("end", tripID, ErrEnd)
            /\ ends' = ends
       ELSE /\ ends' = ends (+) SetToBag({EndCall(tripID,
                                   EndDistance(distKm, trips[tripID]),
                                   trips[tripID])})
            /\ resp' = resp
    /\ UNCHANGED <<trips, statusLog, busVars, matchVars, daVars, geoVars, hubVars,
                   procVars>>

\* Service.End, lines 137-170: the UPDATE, the publish goroutine, return
EndWrite(call) ==
    /\ BagIn(call, ends)
    /\ LET fare == EndFare(call.km)
           tbl  == EndUpdate(trips, call.trip, fare, TimeNow)
       IN /\ trips' = tbl
          /\ statusLog' = Logged(tbl)
          /\ goPub' = goPub (+) Go(TopicTripCompleted,
                         [trip |-> call.trip, driver |-> call.snap.driver,
                          rider |-> call.snap.rider, fare |-> fare,
                          completedAt |-> TimeNow])
          /\ resp' = Response("end", call.trip, NoErr)
    /\ ends' = ends (-) SetToBag({call})
    /\ UNCHANGED <<rideRequested, driverAssigned, tripCompleted,
                   matchVars, daVars, geoVars, hubVars, procVars>>

\* ---- Kafka ----

\* Client.Publish succeeded: the event is appended to its topic
Written(topic, ev) ==
    /\ rideRequested' = IF topic = TopicRideRequested
                        THEN Append(rideRequested, ev) ELSE rideRequested
    /\ driverAssigned' = IF topic = TopicDriverAssigned
                         THEN Append(driverAssigned, ev) ELSE driverAssigned
    /\ tripCompleted' = IF topic = TopicTripCompleted
                        THEN tripCompleted (+) SetToBag({ev}) ELSE tripCompleted

\* the goroutine of Request or End publishes its event
GoPublish(g) ==
    /\ BagIn(g, goPub)
    /\ goPub' = goPub (-) SetToBag({g})
    /\ Written(g.topic, g.ev)
    /\ UNCHANGED <<ledgerVars, matchVars, daVars, geoVars, hubVars, procVars>>

\* its Publish returns an error, which is logged
GoPublishFail(g) ==
    /\ BagIn(g, goPub)
    /\ goPub' = goPub (-) SetToBag({g})
    /\ UNCHANGED <<ledgerVars, rideRequested, driverAssigned, tripCompleted,
                   matchVars, daVars, geoVars, hubVars, procVars>>

\* ---- Redis GEO set ----

\* Present were GEOSEARCH to see members that were removed
Present_All(g) == Drivers

Present(g) == {d \in Drivers : g[d] # Absent}

\* the members within the radius that no other member is nearer than
Nearest(g, p, radius) ==
    {d \in Present(g) :
        /\ haversineKm(g[d], p) <= radius
        /\ \A e \in Present(g) : haversineKm(g[d], p) <= haversineKm(g[e], p)}

\* Within were the radius not to count
Within_NoRadius(g, p, radius) == Present(g)

\* the members within radius of p
Within(g, p, radius) == {d \in Present(g) : haversineKm(g[d], p) <= radius}

\* GetNearbyDrivers were the reply to come in any order
GetNearbyDrivers_AnyOrder(g, p, radius, count) ==
    LET W == Within(g, p, radius)
        n == IF count > 0 /\ count < Cardinality(W) THEN count ELSE Cardinality(W)
    IN {s \in [1..n -> W] : \A i, j \in 1..n : i < j => s[i] # s[j]}

\* GetNearbyDrivers were the search to find nobody
GetNearbyDrivers_Nobody(g, p, radius, count) == {<<>>}

\* Client.GetNearbyDrivers: GEOSEARCH driver:locations FROMLONLAT p BYRADIUS
\* radius km ASC COUNT count.  The replies Redis can give: the members within
\* the radius, nearest first, cut to count; members at one distance come in
\* either order.  go-redis sends COUNT only when count > 0.
GetNearbyDrivers(g, p, radius, count) ==
    LET W == Within(g, p, radius)
        n == IF count > 0 /\ count < Cardinality(W) THEN count ELSE Cardinality(W)
        dist(d) == haversineKm(g[d], p)
    IN {s \in [1..n -> W] :
           /\ \A i, j \in 1..n : i < j => (s[i] # s[j] /\ dist(s[i]) <= dist(s[j]))
           /\ \A d \in W : (\A i \in 1..n : s[i] # d) =>
                                (\A i \in 1..n : dist(s[i]) <= dist(d))}

\* ZRem were the command to leave the member in place
ZRem_Kept(g, driverID) == g

\* Client.RemoveDriverLocation: ZREM driver:locations driverID
ZRem(g, driverID) == [g EXCEPT ![driverID] = Absent]

\* Service.UpdateLocation -> Client.SetDriverLocation
UpdateLocation(driverID, p) ==
    /\ geo' = [geo EXCEPT ![driverID] = p]
    /\ zremoved' = zremoved \ {driverID}
    /\ UNCHANGED <<ledgerVars, busVars, matchVars, daVars, nearby, zremRes, hubVars,
                   procVars>>

\* Radius of a nearby call, in metres: 1, 5 (the default) and 50 km
Radii == {1000, 5000, 50000}

\* count of a call: 1 from the matcher, 10 from Service.GetNearby
Counts == {1, 10}

NearbyCall(p, radius, count, res, err) ==
    [op |-> "nearby", p |-> p, radius |-> radius, count |-> count,
     res |-> res, err |-> err, gone |-> zremoved]

\* Client.GetNearbyDrivers returns the reply of GEOSEARCH
GetNearby(p, radius, count) ==
    /\ \E res \in GetNearbyDrivers(geo, p, radius, count) :
          nearby' = NearbyCall(p, radius, count, res, NoErr)
    /\ UNCHANGED <<ledgerVars, busVars, matchVars, daVars, geo, zremoved,
                   zremRes, hubVars, procVars>>

\* GEOSEARCH fails: return nil, err
GetNearbyFail(p, radius, count) ==
    /\ nearby' = NearbyCall(p, radius, count, <<>>, "redis")
    /\ UNCHANGED <<ledgerVars, busVars, matchVars, daVars, geo, zremoved,
                   zremRes, hubVars, procVars>>

\* ZRemErr were a ZREM that names no member to be an error
ZRemErr_Missing(g, driverID) == IF g[driverID] = Absent THEN "redis: nil" ELSE NoErr

\* the error of ZREM driver:locations driverID on a server that answers:
\* the reply is the number of members removed, 0 included, and not an error
ZRemErr(g, driverID) == NoErr

\* had: whether the member was in the set when the call was made
RemoveCall(driverID, err) ==
    [op |-> "remove", driver |-> driverID, err |-> err,
     had |-> geo[driverID] # Absent]

\* Client.RemoveDriverLocation: a ZREM that names no member removes nothing
\* and is no error
RemoveDriverLocation(driverID) ==
    /\ geo' = ZRem(geo, driverID)
    /\ zremoved' = zremoved \cup {driverID}
    /\ zremRes' = RemoveCall(driverID, ZRemErr(geo, driverID))
    /\ UNCHANGED <<ledgerVars, busVars, matchVars, daVars, nearby, hubVars,
                   procVars>>

\* ZREM fails: the error of the command is returned
RemoveDriverLocationFail(driverID) ==
    /\ zremRes' = RemoveCall(driverID, "redis")
    /\ UNCHANGED <<ledgerVars, busVars, matchVars, daVars, geo, nearby,
                   zremoved, hubVars, procVars>>

\* ---- matching-group consumer (Client.Subscribe + Matcher.Start) ----

\* a payload that is not the JSON of a RideRequestedEvent
BadPayload == [garbage |-> "{"]

\* UnmarshalFails were every payload to decode
UnmarshalFails_Never(data) == FALSE

\* json.Unmarshal(data, &ev) returns an error
UnmarshalFails(data) == "trip" \notin DOMAIN data

\* some other producer writes such a payload to ride.requested
PublishMalformed ==
    /\ Cardinality({i \in 1..Len(rideRequested) :
                        UnmarshalFails(rideRequested[i])}) < MaxMalformed
    /\ rideRequested' = Append(rideRequested, BadPayload)
    /\ UNCHANGED <<ledgerVars, driverAssigned, tripCompleted, goPub,
                   matchVars, daVars, geoVars, hubVars, procVars>>

\* AfterError were the loop to return on a handler error
AfterError_Return == [pc |-> "returned"]

\* the loop of Subscribe after its handler returned an error: it logs the
\* error and goes back to ReadMessage
AfterError == Idle

\* r.ReadMessage returns the next message of ride.requested, which commits
\* its offset, and the handler unmarshals it: on an error the handler
\* returns it and the loop logs it
MatcherRead ==
    /\ ~ctxDone
    /\ mCur = Idle
    /\ mOff <= Len(rideRequested)
    /\ mCur' = IF UnmarshalFails(rideRequested[mOff]) THEN AfterError
               ELSE [pc |-> "query", ev |-> rideRequested[mOff]]
    /\ mOff' = mOff + 1
    /\ UNCHANGED <<ledgerVars, busVars, daVars, geoVars, hubVars, procVars>>

\* MatcherQuery were an empty result to put the message back for a retry
MatcherQuery_Retry ==
    /\ mCur.pc = "query"
    /\ \E drivers \in GetNearbyDrivers(geo, mCur.ev.pickup, MatchRadiusM, 1) :
          IF Len(drivers) = 0
          THEN mCur' = Idle /\ mOff' = mOff - 1
          ELSE /\ mCur' = [pc |-> "publish", ev |-> mCur.ev, driver |-> drivers[1]]
               /\ mOff' = mOff
    /\ UNCHANGED <<ledgerVars, busVars, daVars, geoVars, hubVars, procVars>>

\* GetNearbyDrivers(pickup, 5.0, 1): no driver (return nil) or drivers[0]
MatcherQuery ==
    /\ mCur.pc = "query"
    /\ \E drivers \in GetNearbyDrivers(geo, mCur.ev.pickup, MatchRadiusM, 1) :
          IF Len(drivers) = 0
          THEN mCur' = Idle
          ELSE mCur' = [pc |-> "publish", ev |-> mCur.ev, driver |-> drivers[1]]
    /\ UNCHANGED <<ledgerVars, busVars, mOff, daVars, geoVars, hubVars,
                   procVars>>

\* GetNearbyDrivers returns an error: the handler returns nil
MatcherQueryFail ==
    /\ mCur.pc = "query"
    /\ mCur' = Idle
    /\ UNCHANGED <<ledgerVars, busVars, mOff, daVars, geoVars, hubVars,
                   procVars>>

\* Publish of DriverAssignedEvent succeeded
MatcherPublish ==
    /\ mCur.pc = "publish"
    /\ Written(TopicDriverAssigned,
               [trip |-> mCur.ev.trip, driver |-> mCur.driver])
    /\ mCur' = [pc |-> "remove", ev |-> mCur.ev, driver |-> mCur.driver]
    /\ UNCHANGED <<ledgerVars, goPub, mOff, daVars, geoVars, hubVars,
                   procVars>>

\* Publish failed: the handler returns the error
MatcherPublishFail ==
    /\ mCur.pc = "publish"
    /\ mCur' = AfterError
    /\ UNCHANGED <<ledgerVars, busVars, mOff, daVars, geoVars, hubVars,
                   procVars>>

\* RemoveDriverLocation (ZREM), then return nil
MatcherRemove ==
    /\ mCur.pc = "remove"
    /\ geo' = ZRem(geo, mCur.driver)
    /\ zremoved' = zremoved \cup {mCur.driver}
    /\ mCur' = Idle
    /\ zremRes' = RemoveCall(mCur.driver, ZRemErr(geo, mCur.driver))
    /\ UNCHANGED <<ledgerVars, busVars, mOff, daVars, nearby, hubVars,
                   procVars>>

\* MatcherRemoveFail were a failed removal to put the message back
MatcherRemoveFail_Requeue ==
    /\ mCur.pc = "remove"
    /\ mCur' = Idle
    /\ mOff' = mOff - 1
    /\ zremRes' = RemoveCall(mCur.driver, "redis")
    /\ UNCHANGED <<ledgerVars, busVars, daVars, geo, nearby, zremoved,
                   hubVars, procVars>>

\* RemoveDriverLocation fails; the error is discarded and the handler
\* returns nil
MatcherRemoveFail ==
    /\ mCur.pc = "remove"
    /\ mCur' = Idle
    /\ zremRes' = RemoveCall(mCur.driver, "redis")
    /\ UNCHANGED <<ledgerVars, busVars, mOff, daVars, geo, nearby, zremoved,
                   hubVars, procVars>>

\* main on SIGINT or SIGTERM: cancel(), after which ReadMessage returns
\* the context's error and the loops of Subscribe return
Cancel ==
    /\ ~ctxDone
    /\ ctxDone' = TRUE
    /\ UNCHANGED <<ledgerVars, busVars, matchVars, daVars, geoVars, hubVars>>

\* ---- trip-driver-assigned consumer (StartDriverAssignedConsumer) ----

\* r.ReadMessage returns the next message of driver.assigned
DaRead ==
    /\ ~ctxDone
    /\ daCur = Idle
    /\ daOff <= Len(driverAssigned)
    /\ daCur' = [pc |-> "handle", ev |-> driverAssigned[daOff]]
    /\ daOff' = daOff + 1
    /\ UNCHANGED <<ledgerVars, busVars, matchVars, redelivered, daRes, geoVars, hubVars,
                   procVars>>

\* DaResult were the handler to look at the rows affected, as AssignDriver
\* does
DaResult_RowsChecked(tbl, tripID) ==
    IF AssignWhere(tbl, tripID) THEN NoErr ELSE ErrAssign

\* what the handler returns: the error of Exec, which is nil whatever the
\* number of rows affected
DaResult(tbl, tripID) == NoErr

\* the handler: the same conditional UPDATE as AssignDriver, rows affected
\* not looked at
DaHandle ==
    /\ daCur.pc = "handle"
    /\ LET tbl == AssignUpdate(trips, daCur.ev.trip, daCur.ev.driver)
       IN /\ trips' = tbl
          /\ statusLog' = Logged(tbl)
    /\ daRes' = DaResult(trips, daCur.ev.trip)
    /\ daCur' = Idle
    /\ UNCHANGED <<ends, resp, busVars, matchVars, daOff, redelivered, geoVars, hubVars,
                   procVars>>

\* at-least-once delivery: the group is handed a message of driver.assigned
\* a second time
Redeliver ==
    /\ redelivered < MaxRedeliver
    /\ daOff > 1
    /\ daOff' = daOff - 1
    /\ redelivered' = redelivered + 1
    /\ UNCHANGED <<ledgerVars, busVars, matchVars, daCur, daRes, geoVars, hubVars,
                   procVars>>

\* ---- tracking hub (Hub, safeConn) ----

\* SliceOf were a missing key to read as the slice of another trip
SliceOf_Other(tripID) ==
    IF tripID \in DOMAIN hubConns THEN hubConns[tripID]
    ELSE IF DOMAIN hubConns # {}
         THEN hubConns[CHOOSE t \in DOMAIN hubConns : TRUE]
         ELSE NilSlice

\* the slice Hub.conns holds for a trip id; a missing key reads as nil
SliceOf(tripID) ==
    IF tripID \in DOMAIN hubConns THEN hubConns[tripID] ELSE NilSlice

\* cap() of a slice
Cap(bk, h) == IF h.arr = 0 THEN 0 ELSE Len(bk[h.arr])

\* the elements of a slice as its array holds them now
Elems(bk, h) == [i \in 1..h.len |-> bk[h.arr][i]]

\* the capacity append gives a full slice of capacity old that must hold need
GrowCap(old, need) == IF need > 2 * old THEN need ELSE 2 * old

NewArr(bk) == CHOOSE a \in 1..(Cardinality(DOMAIN bk) + 1) : a \notin DOMAIN bk

\* append(s, c): in place when the capacity allows, else into a new array
AppendSlice(bk, h, c) ==
    IF h.len < Cap(bk, h)
    THEN [bk  |-> [bk EXCEPT ![h.arr][h.len + 1] = c],
          hdr |-> [arr |-> h.arr, len |-> h.len + 1]]
    ELSE LET a == NewArr(bk)
             n == GrowCap(Cap(bk, h), h.len + 1)
             e == Elems(bk, h)
         IN [bk  |-> [x \in DOMAIN bk \cup {a} |->
                        IF x = a
                        THEN [i \in 1..n |-> IF i <= h.len THEN e[i]
                                             ELSE IF i = h.len + 1 THEN c
                                             ELSE NilConn]
                        ELSE bk[x]],
             hdr |-> [arr |-> a, len |-> h.len + 1]]

\* CutSlice were the last element the one that goes
CutSlice_Last(bk, h, i) == [bk |-> bk, hdr |-> [arr |-> h.arr, len |-> h.len - 1]]

\* append(conns[:i], conns[i+1:]...): the elements after i move down one
\* place in the array of conns, whose last place keeps what it held
CutSlice(bk, h, i) ==
    [bk  |-> [bk EXCEPT ![h.arr] =
                [k \in 1..Len(bk[h.arr]) |->
                    IF k >= i /\ k < h.len THEN bk[h.arr][k + 1]
                    ELSE bk[h.arr][k]]],
     hdr |-> [arr |-> h.arr, len |-> h.len - 1]]

\* the arrays still referenced: by Hub.conns or by a broadcast in progress
Live(hc, bc) ==
    {hc[t].arr : t \in DOMAIN hc}
        \cup {bc[b].snap.arr : b \in {x \in BcastSlots : bc[x].pc # "idle"}}

Collect(bk, hc, bc) == [a \in DOMAIN bk \cap Live(hc, bc) |-> bk[a]]

SetKey(hc, tripID, h) ==
    [t \in DOMAIN hc \cup {tripID} |-> IF t = tripID THEN h ELSE hc[t]]

DelKey(hc, tripID) == [t \in DOMAIN hc \ {tripID} |-> hc[t]]

\* HandleWS up to its read loop: upgrade, then under h.mu, which Lock gets
\* when no reader holds it, h.conns[tripID] = append(h.conns[tripID], conn)
HandleWS(tripID) ==
    /\ hubMu = {}
    /\ \E c \in ConnIds :
          /\ sockets[c].st = "none"
          /\ \A e \in ConnIds : e < c => sockets[e].st # "none"
          /\ LET r == AppendSlice(backing, SliceOf(tripID), c)
             IN /\ hubConns' = SetKey(hubConns, tripID, r.hdr)
                /\ backing' = Collect(r.bk, hubConns', bcasts)
          /\ sockets' = [sockets EXCEPT ![c] = [trip |-> tripID, st |-> "open"]]
    /\ UNCHANGED <<ledgerVars, busVars, matchVars, daVars, geoVars, bcasts,
                   connMu, hubMu, procVars>>

\* removeConn were it to keep the key of a trip whose last connection left
RemoveConn_KeepKey(hc, bk, tripID, c) ==
    LET h == IF tripID \in DOMAIN hc THEN hc[tripID] ELSE NilSlice
        at == {i \in 1..h.len : bk[h.arr][i] = c}
    IN IF at = {} THEN [bk |-> bk, hc |-> hc]
       ELSE LET i == CHOOSE k \in at : \A m \in at : k <= m
                r == CutSlice(bk, h, i)
            IN [bk |-> r.bk, hc |-> SetKey(hc, tripID, r.hdr)]

\* Hub.removeConn, under h.mu: cut the first place that holds c, and delete
\* the key when the slice is empty
RemoveConn(hc, bk, tripID, c) ==
    LET h == IF tripID \in DOMAIN hc THEN hc[tripID] ELSE NilSlice
        at == {i \in 1..h.len : bk[h.arr][i] = c}
        r == IF at = {} THEN [bk |-> bk, hdr |-> h]
             ELSE CutSlice(bk, h, CHOOSE k \in at : \A m \in at : k <= m)
    IN IF r.hdr.len = 0
       THEN [bk |-> r.bk, hc |-> DelKey(hc, tripID)]
       ELSE [bk |-> r.bk, hc |-> SetKey(hc, tripID, r.hdr)]

\* HandleWS after its read loop: ReadMessage returned an error, removeConn
HandleWSLeave(c) ==
    /\ sockets[c].st = "open"
    /\ hubMu = {}
    /\ LET r == RemoveConn(hubConns, backing, sockets[c].trip, c)
       IN /\ hubConns' = r.hc
          /\ backing' = Collect(r.bk, hubConns', bcasts)
    /\ sockets' = [sockets EXCEPT ![c].st = "removed"]
    /\ UNCHANGED <<ledgerVars, busVars, matchVars, daVars, geoVars, bcasts,
                   connMu, hubMu, procVars>>

\* HandleWS ends: conn.close()
HandleWSClose(c) ==
    /\ sockets[c].st = "removed"
    /\ sockets' = [sockets EXCEPT ![c].st = "closed"]
    /\ UNCHANGED <<ledgerVars, busVars, matchVars, daVars, geoVars, hubConns,
                   backing, bcasts, connMu, hubMu, procVars>>

FreeSlot(b) ==
    /\ bcasts[b].pc = "idle"
    /\ \A x \in BcastSlots : x < b => bcasts[x].pc # "idle"

\* HeldInLoop were h.mu.RUnlock deferred to the return of the call
HeldInLoop_Deferred(b) == {b}

\* the read locks of h.mu a broadcast holds when it enters its loop:
\* h.mu.RUnlock() comes right after the read of the map
HeldInLoop(b) == {}

\* BroadcastLocation up to its loop: conns := h.conns[tripID] under
\* h.mu.RLock.  conns shares its array with the slice in the map.
BroadcastLocation(tripID, p) ==
    /\ \E b \in BcastSlots :
          /\ FreeSlot(b)
          /\ LET h == SliceOf(tripID)
             IN bcasts' = [bcasts EXCEPT ![b] =
                    [pc |-> "loop", trip |-> tripID, p |-> p, snap |-> h,
                     seen |-> Elems(backing, h), i |-> 1, cur |-> NilConn,
                     done |-> <<>>]]
          /\ hubMu' = hubMu \cup HeldInLoop(b)
    /\ UNCHANGED <<ledgerVars, busVars, matchVars, daVars, geoVars, hubConns,
                   backing, sockets, connMu, procVars>>

\* what the loop can read in place i of conns: removeConn and HandleWS
\* write the array under h.mu, the loop reads it under no lock, so the
\* read gives what the place holds now or what it held at the snapshot
RangeRead_Snapshot(bc) == {bc.seen[bc.i]}

RangeRead(bc) == {backing[bc.snap.arr][bc.i], bc.seen[bc.i]}

\* safeConn.writeJSON were it to write without c.mu
MuFree_NoLock(c) == TRUE

MuFree(c) == connMu[c] = Unlocked

\* the loop takes the next connection and enters c.writeJSON: c.mu.Lock()
BroadcastWrite(b) ==
    /\ bcasts[b].pc = "loop"
    /\ bcasts[b].i <= bcasts[b].snap.len
    /\ \E c \in RangeRead(bcasts[b]) :
          /\ MuFree(c)
          /\ connMu' = [connMu EXCEPT ![c] = b]
          /\ bcasts' = [bcasts EXCEPT ![b].pc = "write", ![b].cur = c]
    /\ UNCHANGED <<ledgerVars, busVars, matchVars, daVars, geoVars, hubConns,
                   backing, sockets, hubMu, procVars>>

\* NextIndex were the loop to stop at the first write that fails
NextIndex_StopOnError(bc, ok) == IF ok THEN bc.i + 1 ELSE bc.snap.len + 1

\* the place the loop goes to after a write: the next one, whatever
\* writeJSON returned
NextIndex(bc, ok) == bc.i + 1

\* ws.WriteJSON returns, c.mu is released; an error is logged and the loop
\* goes on.  A write on a closed connection fails.
BroadcastWritten(b, ok) ==
    /\ bcasts[b].pc = "write"
    /\ ok => sockets[bcasts[b].cur].st # "closed"
    /\ connMu' = [connMu EXCEPT ![bcasts[b].cur] = Unlocked]
    /\ bcasts' = [bcasts EXCEPT
                    ![b].pc = "loop", ![b].cur = NilConn,
                    ![b].i = NextIndex(bcasts[b], ok),
                    ![b].done = Append(bcasts[b].done,
                                       [conn |-> bcasts[b].cur, ok |-> ok])]
    /\ UNCHANGED <<ledgerVars, busVars, matchVars, daVars, geoVars, hubConns,
                   backing, sockets, hubMu, procVars>>

\* the loop is over: BroadcastLocation returns (it has no result)
BroadcastReturn(b) ==
    /\ bcasts[b].pc = "loop"
    /\ bcasts[b].i > bcasts[b].snap.len
    /\ bcasts' = [bcasts EXCEPT ![b] = Idle]
    /\ backing' = Collect(backing, hubConns, bcasts')
    /\ hubMu' = hubMu \ {b}
    /\ UNCHANGED <<ledgerVars, busVars, matchVars, daVars, geoVars, hubConns,
                   sockets, connMu, procVars>>

\* ---- specifications ----

\* The API alone, on two trips: every call of the trips handler, with no
\* consumer running.
NextLedger ==
    \/ \E r \in Riders, req \in TripRequests : Request(r, req)
    \/ \E t \in CallTrips, d \in Drivers : AssignDriver(t, d)
    \/ \E t \in CallTrips : Start(t)
    \/ \E t \in CallTrips, k \in DistInputs : EndRead(t, k)
    \/ \E call \in BagToSet(ends) : EndWrite(call)

SpecLedger == Init /\ [][NextLedger]_vars

\* the distances given when one ride runs: none, and 25.5 km
RideDists == {NoDist, 25500}

\* One ride end to end: the API, the publish goroutines, both consumers and
\* the drivers' location pushes.
Next ==
    \/ \E r \in Riders, req \in TripRequests : trips = <<>> /\ Request(r, req)
    \/ \E t \in RideTrips, d \in Drivers : AssignDriver(t, d)
    \/ \E t \in RideTrips : Start(t)
    \/ \E t \in RideTrips, k \in RideDists : EndRead(t, k)
    \/ \E call \in BagToSet(ends) : EndWrite(call)
    \/ \E g \in BagToSet(goPub) : GoPublish(g)
    \/ \E g \in BagToSet(goPub) : GoPublishFail(g)
    \/ \E d \in Drivers, p \in DriverPoints : UpdateLocation(d, p)
    \/ MatcherRead
    \/ MatcherQuery
    \/ MatcherQueryFail
    \/ MatcherPublish
    \/ MatcherPublishFail
    \/ MatcherRemove
    \/ MatcherRemoveFail
    \/ DaRead
    \/ DaHandle
    \/ Redeliver

Spec == Init /\ [][Next]_vars

\* The matching pipeline on two trips: requests, their events, payloads of
\* other producers, location pushes, the matcher, the driver.assigned
\* consumer and manual assignment.
MatchRequest == [pickup |-> "Blr", drop |-> "Drop"]

\* where the drivers are when matching runs: at the pickup, 62 m from it,
\* and 5.185 km from it, just outside the matcher's radius
MatchPoints == {"Blr", "Drv", "Drop"}

NextMatch ==
    \/ \E r \in Riders : Request(r, MatchRequest)
    \/ \E g \in BagToSet(goPub) : GoPublish(g)
    \/ PublishMalformed
    \/ \E d \in Drivers, p \in MatchPoints : UpdateLocation(d, p)
    \/ MatcherRead
    \/ MatcherQuery
    \/ MatcherQueryFail
    \/ MatcherPublish
    \/ MatcherPublishFail
    \/ MatcherRemove
    \/ MatcherRemoveFail
    \/ DaRead
    \/ DaHandle
    \/ \E t \in TripIds, d \in Drivers : AssignDriver(t, d)

SpecMatch == Init /\ [][NextMatch]_vars

\* The Geo-Index by itself: location pushes, removals and nearby queries of
\* any point, radius and count.
NextGeo ==
    \/ \E d \in Drivers, p \in Points : UpdateLocation(d, p)
    \/ \E d \in Drivers : RemoveDriverLocation(d)
    \/ \E d \in Drivers : RemoveDriverLocationFail(d)
    \/ \E p \in Points, r \in Radii, c \in Counts : GetNearby(p, r, c)
    \/ \E p \in Points, r \in Radii, c \in Counts : GetNearbyFail(p, r, c)

SpecGeo == Init /\ [][NextGeo]_vars

\* The end-to-end flow of test_all.sh section 14: one driver pushes a
\* position 62 m from the pickup, the other is far away, a trip is requested,
\* matched and assigned through the two topics, started and ended.  Nothing
\* fails and nobody assigns by hand.
FlowDriver == "d1"

NextFlow ==
    \/ UpdateLocation(FlowDriver, "Drv")
    \/ \E d \in Drivers \ {FlowDriver} : UpdateLocation(d, "Delhi")
    \/ \E r \in Riders, req \in TripRequests :
          trips = <<>> /\ geo[FlowDriver] = "Drv" /\ Request(r, req)
    \/ \E g \in BagToSet(goPub) : GoPublish(g)
    \/ MatcherRead
    \/ MatcherQuery
    \/ MatcherPublish
    \/ MatcherRemove
    \/ DaRead
    \/ DaHandle
    \/ \E t \in RideTrips : Start(t)
    \/ \E t \in RideTrips, k \in DistInputs : EndRead(t, k)
    \/ \E call \in BagToSet(ends) : EndWrite(call)

\* every goroutine that can take a step takes it in the end, and the client
\* of the flow goes on to call Start and End on its trip
FlowFairness ==
    /\ WF_vars(\E g \in BagToSet(goPub) : GoPublish(g))
    /\ WF_vars(MatcherRead)
    /\ WF_vars(MatcherQuery)
    /\ WF_vars(MatcherPublish)
    /\ WF_vars(MatcherRemove)
    /\ WF_vars(DaRead)
    /\ WF_vars(DaHandle)
    /\ WF_vars(Start(TripOrder[1]))
    /\ WF_vars(\E k \in DistInputs : EndRead(TripOrder[1], k))
    /\ WF_vars(\E call \in BagToSet(ends) : EndWrite(call))

SpecFlow == Init /\ [][NextFlow]_vars /\ FlowFairness

\* The tracking hub with one broadcast at a time: clients connect to the
\* two trip ids and leave, and BroadcastLocation is called for either trip
\* while they do.
HubPoint == "Drv"

NoBroadcast == \A b \in BcastSlots : bcasts[b].pc = "idle"

NextHub ==
    \/ \E t \in TripIds : HandleWS(t)
    \/ \E c \in ConnIds : HandleWSLeave(c)
    \/ \E c \in ConnIds : HandleWSClose(c)
    \/ \E t \in TripIds : NoBroadcast /\ BroadcastLocation(t, HubPoint)
    \/ \E b \in BcastSlots : BroadcastWrite(b)
    \/ \E b \in BcastSlots, ok \in BOOLEAN : BroadcastWritten(b, ok)
    \/ \E b \in BcastSlots : BroadcastReturn(b)

SpecHub == Init /\ [][NextHub]_vars

\* The tracking hub with broadcasts running together, on two connections.
NextHubPair ==
    \/ \E t \in TripIds : sockets[2].st = "none" /\ HandleWS(t)
    \/ \E c \in ConnIds : HandleWSLeave(c)
    \/ \E c \in ConnIds : HandleWSClose(c)
    \/ \E t \in TripIds : BroadcastLocation(t, HubPoint)
    \/ \E b \in BcastSlots : BroadcastWrite(b)
    \/ \E b \in BcastSlots, ok \in BOOLEAN : BroadcastWritten(b, ok)
    \/ \E b \in BcastSlots : BroadcastReturn(b)

SpecHubPair == Init /\ [][NextHubPair]_vars

\* Live tracking as the service wires it: riders request trips, drivers are
\* assigned and push their positions, and clients follow the trips over the
\* hub's websocket route.  Nothing in the service calls BroadcastLocation.
NextTrack ==
    \/ \E r \in Riders : Request(r, MatchRequest)
    \/ \E t \in TripIds, d \in Drivers : AssignDriver(t, d)
    \/ \E t \in TripIds : Start(t)
    \/ \E d \in Drivers, p \in DriverPoints : UpdateLocation(d, p)
    \/ \E t \in TripIds : HandleWS(t)
    \/ \E c \in ConnIds : HandleWSLeave(c)
    \/ \E c \in ConnIds : HandleWSClose(c)

SpecTrack == Init /\ [][NextTrack]_vars

\* The matching-group consumer until the process is told to stop: requests
\* and payloads of other producers come in, the one driver pushes its
\* position, any call of the handler may fail.  The goroutine of Subscribe
\* keeps running and the calls of its handler return.
MatcherStep ==
    \/ MatcherQuery
    \/ MatcherQueryFail
    \/ MatcherPublish
    \/ MatcherPublishFail
    \/ MatcherRemove
    \/ MatcherRemoveFail

NextConsume ==
    \/ \E r \in Riders : Request(r, MatchRequest)
    \/ \E g \in BagToSet(goPub) : GoPublish(g)
    \/ PublishMalformed
    \/ UpdateLocation(FlowDriver, "Drv")
    \/ MatcherRead
    \/ MatcherStep
    \/ Cancel

ConsumeFairness == WF_vars(MatcherRead) /\ WF_vars(MatcherStep)

SpecConsume == Init /\ [][NextConsume]_vars /\ ConsumeFairness

\* ---- properties ----

Lifecycle == <<StatusRequested, StatusDriverAssigned, StatusStarted, StatusCompleted>>

IsPrefix(s, full) ==
    /\ Len(s) <= Len(full)
    /\ \A i \in 1..Len(s) : s[i] = full[i]

\* the driver.assigned messages the consumer has run its handler on
Handled == {i \in 1..Len(driverAssigned) : i < daOff /\ (daCur = Idle \/ i < daOff - 1)}

\* C1: the statuses a trip row takes are, in order, a prefix of REQUESTED,
\* DRIVER_ASSIGNED, STARTED, COMPLETED: every change of status goes to the
\* next status of the lifecycle, none is skipped, none is entered twice.
T_C1 ==
    \A t \in DOMAIN trips :
        /\ t \in DOMAIN statusLog
        /\ statusLog[t] # <<>>
        /\ IsPrefix(statusLog[t], Lifecycle)
        /\ statusLog[t][Len(statusLog[t])] = trips[t].status

\* a trip went through the whole lifecycle after the consumer handled a
\* driver.assigned message for it
W_C1 ==
    \E t \in DOMAIN trips :
        /\ statusLog[t] = Lifecycle
        /\ \E i \in Handled : driverAssigned[i].trip = t

\* the step is the UPDATE of a manual AssignDriver call on t
ManualAttempt(t, d) ==
    resp'.op = "assign" /\ resp'.trip = t /\ AssignDriver(t, d)

\* the step is the UPDATE of the driver.assigned handler, for a message on t
ConsumerAttempt(t) == daCur.pc = "handle" /\ daCur.ev.trip = t /\ DaHandle

\* the attempt for driver d won: the row is DRIVER_ASSIGNED with d
Won(t, d) ==
    trips' = [trips EXCEPT ![t].status = StatusDriverAssigned, ![t].driver = d]

\* C2: of the assignment attempts made on a trip (manual calls and the
\* driver.assigned handler, in any interleaving) the one that finds the trip
\* REQUESTED succeeds and leaves it DRIVER_ASSIGNED with its driver; every
\* other one affects zero rows, a manual one returning the conflict error;
\* and a trip that left REQUESTED never returns to it, so exactly one wins.
T_C2 ==
    [][\A t \in DOMAIN trips :
          /\ \A d \in Drivers :
                ManualAttempt(t, d) =>
                    IF trips[t].status = StatusRequested
                    THEN Won(t, d) /\ resp' = Response("assign", t, NoErr)
                    ELSE trips' = trips /\ resp' = Response("assign", t, ErrAssign)
          /\ ConsumerAttempt(t) =>
                IF trips[t].status = StatusRequested
                THEN Won(t, daCur.ev.driver)
                ELSE trips' = trips
          /\ trips[t].status # StatusRequested => trips'[t].status # StatusRequested
      ]_vars

\* a manual call won while the consumer held a message naming another driver
\* for the same trip, and the trip has the manual call's driver
W_C2 ==
    \E t \in DOMAIN trips :
        /\ daCur.pc = "handle" /\ daCur.ev.trip = t
        /\ resp = Response("assign", t, NoErr)
        /\ trips[t].status = StatusDriverAssigned
        /\ trips[t].driver \in Drivers \ {daCur.ev.driver}

\* C3: every transition is a compare-and-swap on (id, status): a row changes
\* only in a step that takes its status from the expected pre-state to the
\* next one, so of two End calls on one STARTED trip only one writes.
CE_C3 ==
    [][\A t \in DOMAIN trips :
          trips'[t] # trips[t] =>
              \/ trips[t].status = StatusRequested
                 /\ trips'[t].status = StatusDriverAssigned
              \/ trips[t].status = StatusDriverAssigned
                 /\ trips'[t].status = StatusStarted
              \/ trips[t].status = StatusStarted
                 /\ trips'[t].status = StatusCompleted
      ]_vars

\* C4: AssignDriver(tripId, driverId) on a trip in REQUESTED or MATCHING sets
\* status DRIVER_ASSIGNED and the driver and returns no error; on a missing
\* trip or any other status it returns 'trip not found or invalid state for
\* assignment' and leaves every row as it was.
T_C4 ==
    [][\A t \in CallTrips, d \in Drivers :
          AssignDriver(t, d) =>
              IF t \in DOMAIN trips
                 /\ trips[t].status \in {StatusRequested, StatusMatching}
              THEN /\ trips' = [trips EXCEPT ![t].status = StatusDriverAssigned,
                                             ![t].driver = d]
                   /\ resp' = Response("assign", t, NoErr)
              ELSE /\ trips' = trips
                   /\ resp' = Response("assign", t, ErrAssign)
      ]_vars

\* AssignDriver has just been refused on a STARTED trip, whose driver stands
W_C4 ==
    \E t \in DOMAIN trips :
        /\ resp = Response("assign", t, ErrAssign)
        /\ trips[t].status = StatusStarted
        /\ trips[t].driver \in Drivers

\* C5: Start(tripId) succeeds exactly when the trip is DRIVER_ASSIGNED; it
\* then sets STARTED and started_at and changes nothing else of the row; on
\* a missing trip or any other status it returns an error and changes no row.
T_C5 ==
    [][\A t \in CallTrips :
          Start(t) =>
              IF t \in DOMAIN trips /\ trips[t].status = StatusDriverAssigned
              THEN /\ trips' = [trips EXCEPT ![t].status = StatusStarted,
                                             ![t].startedAt = TimeNow]
                   /\ trips'[t].driver = trips[t].driver
                   /\ resp' = Response("start", t, NoErr)
              ELSE /\ trips' = trips
                   /\ resp' = Response("start", t, ErrStart)
      ]_vars

\* Start has just succeeded: STARTED, started_at set, the driver in place
W_C5 ==
    \E t \in DOMAIN trips :
        /\ resp = Response("start", t, NoErr)
        /\ trips[t].status = StatusStarted
        /\ trips[t].startedAt = TimeNow
        /\ trips[t].driver \in Drivers

\* C6: End on a missing trip or on a trip not in STARTED returns an error,
\* changes no row, starts no write and publishes no TripCompleted event.
T_C6 ==
    [][\A t \in CallTrips, k \in DistInputs :
          (EndRead(t, k) /\ (t \notin DOMAIN trips \/ trips[t].status # StatusStarted)) =>
              /\ resp'.op = "end" /\ resp'.trip = t
              /\ resp'.err = IF t \in DOMAIN trips THEN ErrEnd ELSE ErrNotFound
              /\ trips' = trips
              /\ ends' = ends
              /\ goPub' = goPub
              /\ tripCompleted' = tripCompleted
      ]_vars

\* End has just been refused on a COMPLETED trip
W_C6 ==
    \E t \in DOMAIN trips :
        /\ resp = Response("end", t, ErrEnd)
        /\ trips[t].status = StatusCompleted

T_C8 ==
    [][\A call \in BagToSet(ends) :
          EndWrite(call) =>
              /\ call.km % 100 = 0 =>
                    trips'[call.trip].fare = 5000 + 120 * (call.km \div 100)
              /\ call.km = 25500 => trips'[call.trip].fare = 35600
              /\ call.km = 0 => trips'[call.trip].fare = 5000
      ]_vars

\* one trip completed at 356.00 and one at 50.00
W_C8 ==
    \E t, u \in DOMAIN trips :
        /\ trips[t].status = StatusCompleted /\ trips[t].fare = 35600
        /\ trips[u].status = StatusCompleted /\ trips[u].fare = 5000

\* C9: the driver of a trip is written at most once: once driver_id is set,
\* no step (AssignDriver, the driver.assigned handler on a duplicate or on a
\* message naming another driver, Start, End) changes or clears it.
T_C9 ==
    [][\A t \in DOMAIN trips :
          trips[t].driver # NoDriver =>
              t \in DOMAIN trips' /\ trips'[t].driver = trips[t].driver
      ]_vars

\* the consumer has handled a message naming another driver than the one the
\* trip has, and one message was delivered twice
W_C9 ==
    \E t \in DOMAIN trips :
        /\ trips[t].driver \in Drivers
        /\ redelivered > 0
        /\ \E i \in Handled :
              /\ driverAssigned[i].trip = t
              /\ driverAssigned[i].driver # trips[t].driver

\* C10: rows are never deleted and COMPLETED is final: no step changes the
\* status, driver, fare or completed_at of a row that is COMPLETED.
CE_C10 ==
    [][\A t \in DOMAIN trips :
          /\ t \in DOMAIN trips'
          /\ trips[t].status = StatusCompleted =>
                /\ trips'[t].status = trips[t].status
                /\ trips'[t].driver = trips[t].driver
                /\ trips'[t].fare = trips[t].fare
                /\ trips'[t].completedAt = trips[t].completedAt
      ]_vars

\* C11: when the Geo-Index query of the matcher fails, the offset of the
\* message is not committed, no DriverAssigned event is published for the
\* attempt, and the next read hands the same message to the handler again.
CE_C11 ==
    [][MatcherQueryFail =>
          /\ mOff' = mOff - 1
          /\ driverAssigned' = driverAssigned
      ]_vars

\* C12: when the publish of DriverAssigned fails, the RideRequested message
\* is not acknowledged and the next read hands it to the handler again, which
\* starts over from the query; the attempt leaves the driver it found in the
\* Geo-Index.
CE_C12 ==
    [][MatcherPublishFail =>
          /\ mOff' = mOff - 1
          /\ mCur' = Idle
          /\ geo' = geo
      ]_vars

\* C13: a RideRequested payload that does not deserialize is dropped: the
\* read that hands it over commits its offset, the handler stops at the
\* decoding error without a query, a publish or a removal, and the offset
\* never goes back, so the payload is not handed over again.
T_C13 ==
    [][/\ (mOff <= Len(rideRequested) /\ rideRequested[mOff] = BadPayload
           /\ MatcherRead) =>
              /\ mOff' = mOff + 1
              /\ mCur' = Idle
              /\ driverAssigned' = driverAssigned
              /\ geo' = geo
       /\ mOff' >= mOff
      ]_vars

\* the matcher has passed a malformed payload and then matched the trip of
\* the message behind it
W_C13 ==
    \E i \in 1..Len(rideRequested) :
        /\ rideRequested[i] = BadPayload
        /\ i < Len(rideRequested)
        /\ mOff > Len(rideRequested)
        /\ mCur = Idle
        /\ \E j \in 1..Len(driverAssigned) :
              driverAssigned[j].trip = rideRequested[i + 1].trip

\* the RideRequested message of trip t has been published and consumed, t is
\* REQUESTED and no DriverAssigned event names it
Unmatched(t) ==
    /\ t \in DOMAIN trips
    /\ trips[t].status = StatusRequested
    /\ \A g \in BagToSet(goPub) : g.ev.trip # t
    /\ \E i \in 1..Len(rideRequested) :
          rideRequested[i] # BadPayload /\ rideRequested[i].trip = t /\ i < mOff
    /\ mCur # Idle => mCur.ev.trip # t
    /\ \A j \in 1..Len(driverAssigned) : driverAssigned[j].trip # t

T_C15 ==
    [][/\ (mCur.pc = "query" /\ MatcherQuery
           /\ \E d \in Drivers : geo[d] # Absent
                                    /\ haversineKm(geo[d], mCur.ev.pickup) <= 5000) =>
              /\ mCur'.pc = "publish"
              /\ mCur'.ev = mCur.ev
              /\ mCur'.driver \in Nearest(geo, mCur.ev.pickup, 5000)
       /\ (mCur.pc = "query" /\ mCur'.pc = "publish") =>
              /\ geo[mCur'.driver] # Absent
              /\ haversineKm(geo[mCur'.driver], mCur.ev.pickup) <= 5000
       /\ MatcherPublish =>
              driverAssigned' = Append(driverAssigned,
                                       [trip |-> mCur.ev.trip, driver |-> mCur.driver])
      ]_vars

\* with one driver at the pickup and the other 62 m away, the event just
\* published names the one at the pickup
W_C15 ==
    \E d, e \in Drivers :
        /\ geo[d] = "Blr" /\ geo[e] = "Drv"
        /\ mCur.pc = "remove" /\ mCur.driver = d
        /\ driverAssigned # <<>>
        /\ driverAssigned[Len(driverAssigned)] =
              [trip |-> mCur.ev.trip, driver |-> d]

\* C16: the matcher's removal takes the matched driver out of the Geo-Index;
\* a driver that is out returns only by a location push of that driver; and
\* no query matches a message to a driver that is out.  So after a match
\* whose removal succeeded no later message is matched to the driver before
\* a new push.
T_C16 ==
    [][/\ MatcherRemove => geo'[mCur.driver] = Absent
       /\ \A d \in Drivers :
             (geo[d] = Absent /\ geo'[d] # Absent) =>
                 \E p \in Points : UpdateLocation(d, p)
       /\ \A d \in Drivers :
             (geo[d] = Absent /\ mCur.pc = "query" /\ mCur'.pc = "publish") =>
                 mCur'.driver # d
      ]_vars

\* driver d was matched to the first trip and removed; the message of the
\* second trip was handled after that and d, still out, was not matched to it
W_C16 ==
    \E d \in Drivers :
        /\ \A t \in TripIds :
              \E i \in 1..Len(rideRequested) :
                  rideRequested[i] # BadPayload /\ rideRequested[i].trip = t
        /\ mOff > Len(rideRequested) /\ mCur = Idle
        /\ geo[d] = Absent
        /\ Len(driverAssigned) >= 1
        /\ driverAssigned[1].driver = d
        /\ \A j \in 2..Len(driverAssigned) : driverAssigned[j].driver # d

\* C17: when the driver.assigned handler runs on a trip that is already
\* DRIVER_ASSIGNED, STARTED or COMPLETED (a duplicate delivery, or an event
\* naming another driver) the row stays as it is and the handler returns no
\* error; and running the handler on an event a second time gives the table
\* that running it once gives.
T_C17 ==
    [][(daCur.pc = "handle" /\ DaHandle) =>
          LET t    == daCur.ev.trip
              once == AssignUpdate(trips, t, daCur.ev.driver)
          IN /\ trips' = once
             /\ AssignUpdate(once, t, daCur.ev.driver) = once
             /\ (t \in DOMAIN trips
                 /\ trips[t].status \in {StatusDriverAssigned, StatusStarted,
                                         StatusCompleted}) =>
                    /\ trips' = trips
                    /\ daRes' = NoErr
      ]_vars

\* one event was delivered twice and the handler has run on both deliveries,
\* the second on a trip that had been started by then
W_C17 ==
    \E t \in DOMAIN trips :
        /\ redelivered > 0
        /\ daCur = Idle
        /\ daOff > Len(driverAssigned)
        /\ Len(driverAssigned) = 1
        /\ driverAssigned[1].trip = t
        /\ statusLog[t] = <<StatusRequested, StatusDriverAssigned, StatusStarted>>
        /\ daRes = NoErr

\* C18: end to end, with one driver pushed within 5 km of the pickup, no
\* failure and no manual assignment: at most one DriverAssigned event is ever
\* published and it names the trip and that driver; after Request the event
\* is published and the trip becomes DRIVER_ASSIGNED with that driver; Start
\* and End then take it to COMPLETED with a fare.
T_C18 ==
    /\ [](/\ Len(driverAssigned) <= 1
          /\ \A i \in 1..Len(driverAssigned) :
                driverAssigned[i] = [trip |-> TripOrder[1], driver |-> FlowDriver])
    /\ (trips # <<>>) ~>
          (/\ Len(driverAssigned) = 1
           /\ TripOrder[1] \in DOMAIN trips
           /\ trips[TripOrder[1]].driver = FlowDriver
           /\ StatusDriverAssigned \in
                 {statusLog[TripOrder[1]][i] : i \in 1..Len(statusLog[TripOrder[1]])})
    /\ (trips # <<>>) ~>
          (/\ TripOrder[1] \in DOMAIN trips
           /\ trips[TripOrder[1]].status = StatusCompleted
           /\ trips[TripOrder[1]].driver = FlowDriver
           /\ trips[TripOrder[1]].fare # NoFare)

\* the flow has run to its end: the trip is COMPLETED with a fare and the
\* matched driver, who is out of the Geo-Index, and one event was published
W_C18 ==
    /\ TripOrder[1] \in DOMAIN trips
    /\ statusLog[TripOrder[1]] = Lifecycle
    /\ trips[TripOrder[1]].driver = FlowDriver
    /\ trips[TripOrder[1]].fare # NoFare
    /\ driverAssigned = <<[trip |-> TripOrder[1], driver |-> FlowDriver]>>
    /\ geo[FlowDriver] = Absent
    /\ daOff = 2 /\ daCur = Idle

\* the drivers of index g at most radius from p
Qualifying(g, p, radius) ==
    {d \in Drivers : g[d] # Absent /\ haversineKm(g[d], p) <= radius}

\* C19: a nearby query that succeeds returns only drivers that are in the
\* Geo-Index and at most the radius from the query point, each once, in
\* non-decreasing distance order, at most count of them, and these are the
\* count nearest: the reply has min(count, number qualifying) drivers and no
\* qualifying driver left out is nearer than one returned.  With no
\* qualifying driver the reply is the empty list and no error.
T_C19 ==
    [][(nearby' # nearby /\ nearby'.err = NoErr
        /\ GetNearby(nearby'.p, nearby'.radius, nearby'.count)) =>
              LET res == nearby'.res
                  p   == nearby'.p
                  r   == nearby'.radius
                  c   == nearby'.count
                  Q   == Qualifying(geo, p, r)
                  dist(d) == haversineKm(geo[d], p)
              IN /\ nearby'.err = NoErr
                 /\ \A i \in 1..Len(res) : res[i] \in Q
                 /\ \A i, j \in 1..Len(res) :
                       i < j => (res[i] # res[j] /\ dist(res[i]) <= dist(res[j]))
                 /\ Len(res) <= c
                 /\ Len(res) = IF Cardinality(Q) < c THEN Cardinality(Q) ELSE c
                 /\ \A d \in Q : (\A i \in 1..Len(res) : res[i] # d) =>
                                    (\A i \in 1..Len(res) : dist(res[i]) <= dist(d))
                 /\ Q = {} => res = <<>>
      ]_vars

\* with both drivers within 50 km of Blr, one at 62 m and one at 5.185 km, a
\* query with count 1 returned the one at 62 m alone
W_C19 ==
    \E d, e \in Drivers :
        /\ geo[d] = "Drv" /\ geo[e] = "Drop"
        /\ nearby = NearbyCall("Blr", 50000, 1, <<d>>, NoErr)

\* C20: a removal takes the driver out of the Geo-Index, only a location push
\* of the driver puts it back, and a query that starts after a removal, with
\* no push of the driver since, does not return the driver, whatever the
\* query point, radius and count.
T_C20 ==
    [][/\ \A d \in Drivers :
             RemoveDriverLocation(d) => (geo'[d] = Absent /\ d \in zremoved')
       /\ \A d \in zremoved :
             d \notin zremoved' => \E p \in Points : UpdateLocation(d, p)
       /\ (nearby' # nearby /\ nearby'.err = NoErr
           /\ GetNearby(nearby'.p, nearby'.radius, nearby'.count)) =>
                 \A i \in 1..Len(nearby'.res) : nearby'.res[i] \notin zremoved
      ]_vars

\* a query of 50 km around Blr, made when one driver had been pushed next to
\* Blr and then removed, returned the other driver only
W_C20 ==
    \E d, e \in Drivers :
        /\ nearby.op = "nearby" /\ nearby.err = NoErr
        /\ nearby.p = "Blr" /\ nearby.radius = 50000 /\ nearby.count = 10
        /\ nearby.gone = {d}
        /\ nearby.res = <<e>>
        /\ geo[e] = "Drv"

\* C21: removing a driver from the Geo-Index is idempotent: a remove of a
\* driver that is not in the index leaves the index as it was and returns no
\* error, and removing twice leaves what removing once leaves.
T_C21 ==
    [][\A d \in Drivers :
          (zremRes'.op = "remove" /\ zremRes'.driver = d /\ RemoveDriverLocation(d))
              => /\ (geo[d] = Absent => zremRes'.err = NoErr)
                 /\ (geo[d] = Absent => geo' = geo)
                 /\ geo'[d] = Absent
                 /\ ZRem(geo', d) = geo']_vars

\* a driver that an earlier remove had taken out was removed again, with
\* another driver in the index
W_C21 ==
    /\ zremRes.op = "remove" /\ zremRes.err = NoErr /\ ~zremRes.had
    /\ geo[zremRes.driver] = Absent
    /\ \E d \in Drivers : geo[d] # Absent

\* the connections HandleWS holds in its read loop for a trip
Subscribed(t) == {c \in ConnIds : sockets[c].st = "open" /\ sockets[c].trip = t}

InProgress == {b \in BcastSlots : bcasts[b].pc # "idle"}

\* the number of writes a broadcast has attempted on a connection
Attempts(bc, c) == Cardinality({k \in 1..Len(bc.done) : bc.done[k].conn = c})

\* b returns in this step
Returns(b) == bcasts[b].pc = "loop" /\ bcasts'[b].pc = "idle"

\* C22: no trip id of the Hub's map holds an empty list of connections:
\* the key of a trip goes with its last connection.
T_C22 ==
    /\ \A t \in DOMAIN hubConns : hubConns[t].len > 0
    /\ \A t \in TripIds : t \in DOMAIN hubConns <=> Subscribed(t) # {}

\* the last connection of one trip has left and the other trip has one
W_C22 ==
    \E c \in ConnIds :
        /\ sockets[c].st \in {"removed", "closed"}
        /\ sockets[c].trip \notin DOMAIN hubConns
        /\ DOMAIN hubConns # {}

\* C23: a broadcast attempts one write, and no more, on every connection
\* that was subscribed to its trip from its start to its end, and none on a
\* connection of another trip, also when a connection of the trip leaves
\* meanwhile.
CE_C23 ==
    [][\A b \in BcastSlots :
          Returns(b) =>
              /\ \A c \in Subscribed(bcasts[b].trip) :
                     (\E k \in 1..bcasts[b].snap.len : bcasts[b].seen[k] = c)
                         => Attempts(bcasts[b], c) = 1
              /\ \A k \in 1..Len(bcasts[b].done) :
                     sockets[bcasts[b].done[k].conn].trip = bcasts[b].trip]_vars

\* C24: a broadcast for a trip with no subscribers returns without a write
\* and leaves the Hub's map without a key for the trip.
T_C24 ==
    [][\A b \in BcastSlots :
          /\ (bcasts[b].pc = "idle" /\ bcasts'[b].pc = "loop"
                 /\ bcasts'[b].trip \notin DOMAIN hubConns)
                => (hubConns' = hubConns /\ bcasts'[b].snap.len = 0)
          /\ (bcasts[b].pc # "idle" /\ bcasts[b].snap.len = 0
                 /\ bcasts'[b] # bcasts[b])
                => (Returns(b) /\ bcasts[b].done = <<>> /\ hubConns' = hubConns
                    /\ sockets' = sockets)]_vars

\* a broadcast found no subscriber for its trip while the other trip has one
W_C24 ==
    \E b \in InProgress :
        /\ bcasts[b].snap.len = 0
        /\ bcasts[b].trip \notin DOMAIN hubConns
        /\ DOMAIN hubConns # {}

CE_C26 ==
    \A b \in BcastSlots :
        (bcasts[b].pc = "write" /\ bcasts[b].i < bcasts[b].snap.len)
            => ENABLED BroadcastWrite(b)

\* C27: no connection has two writes in progress at once, its lock being
\* held by the one broadcast that writes to it; and a broadcast whose next
\* connection is not being written to can start its write whatever the
\* writes in progress on other connections.
T_C27 ==
    /\ \A a, b \in BcastSlots :
          (a # b /\ bcasts[a].pc = "write" /\ bcasts[b].pc = "write")
              => bcasts[a].cur # bcasts[b].cur
    /\ \A c \in ConnIds, b \in BcastSlots :
          connMu[c] = b <=> (bcasts[b].pc = "write" /\ bcasts[b].cur = c)
    /\ \A b \in BcastSlots :
          (/\ bcasts[b].pc = "loop" /\ bcasts[b].i <= bcasts[b].snap.len
           /\ \E c \in RangeRead(bcasts[b]) :
                 \A a \in BcastSlots :
                    ~(bcasts[a].pc = "write" /\ bcasts[a].cur = c))
              => ENABLED BroadcastWrite(b)

\* two broadcasts are writing at once, each to its own connection
W_C27 ==
    \E a, b \in BcastSlots :
        /\ a # b
        /\ bcasts[a].pc = "write" /\ bcasts[b].pc = "write"
        /\ bcasts[a].cur # bcasts[b].cur
        /\ bcasts[a].trip = bcasts[b].trip

\* the trips a driver is serving: assigned to the driver and not completed
Serving(d) ==
    {t \in DOMAIN trips :
        trips[t].driver = d
            /\ trips[t].status \in {StatusDriverAssigned, StatusStarted}}

\* C28: a location push written to the Geo-Index is also broadcast through
\* the hub: when a driver serving a trip with live subscribers pushes a
\* position, a broadcast of that position for that trip starts.
CE_C28 ==
    [][\A d \in Drivers, p \in DriverPoints :
          (geo'[d] = p /\ UpdateLocation(d, p))
              => \A t \in Serving(d) :
                    Subscribed(t) # {}
                        => \E b \in BcastSlots :
                              /\ bcasts'[b] # bcasts[b]
                              /\ bcasts'[b].pc = "loop"
                              /\ bcasts'[b].trip = t /\ bcasts'[b].p = p]_vars

\* C29: Request inserts one row, for a new id, in REQUESTED with the caller
\* as rider, the given pickup and drop, no driver and no fare, returns that
\* trip, and leaves the Geo-Index and every other row as they were; the end
\* of its publish goroutine, with the event written or not, changes neither
\* the row nor what was returned.
T_C29 ==
    [][/\ \A r \in Riders, req \in TripRequests :
            (resp'.op = "request" /\ trips' # trips /\ Request(r, req))
                => LET id == resp'.trip
                   IN /\ resp'.err = NoErr
                      /\ id \notin DOMAIN trips
                      /\ DOMAIN trips' = DOMAIN trips \cup {id}
                      /\ trips'[id] =
                            [rider |-> r, pickup |-> req.pickup,
                             drop |-> req.drop, driver |-> NoDriver,
                             fare |-> NoFare, status |-> StatusRequested,
                             startedAt |-> NoTime, completedAt |-> NoTime]
                      /\ \A t \in DOMAIN trips : trips'[t] = trips[t]
                      /\ geo' = geo /\ nearby' = nearby /\ zremoved' = zremoved
       /\ \A g \in BagToSet(goPub) :
            (g.topic = TopicRideRequested /\ goPub' = goPub (-) SetToBag({g}))
                => (trips' = trips /\ resp' = resp)]_vars

\* a requested trip is in the table, as inserted, with a driver in the
\* Geo-Index, after the publish of its event failed
W_C29 ==
    \E t \in DOMAIN trips :
        /\ trips[t].status = StatusRequested
        /\ trips[t].driver = NoDriver /\ trips[t].fare = NoFare
        /\ goPub = EmptyBag
        /\ rideRequested = <<>>
        /\ resp = [op |-> "request", trip |-> t, err |-> NoErr]
        /\ \E d \in Drivers : geo[d] # Absent

\* C30: every Request that returned a trip has its RideRequested event,
\* with the trip's id, rider, pickup and drop, published once: the goroutine
\* Request started for it ends with the event on ride.requested, where no
\* trip has two events.
CE_C30 ==
    [][/\ \A g \in BagToSet(goPub) :
            (g.topic = TopicRideRequested /\ goPub' = goPub (-) SetToBag({g}))
                => /\ rideRequested' = Append(rideRequested, g.ev)
                   /\ g.ev.trip \in DOMAIN trips
                   /\ g.ev.rider = trips[g.ev.trip].rider
                   /\ g.ev.pickup = trips[g.ev.trip].pickup
                   /\ g.ev.drop = trips[g.ev.trip].drop
       /\ \A i, j \in 1..Len(rideRequested') :
            i < j => rideRequested'[i].trip # rideRequested'[j].trip]_vars

\* C31: when the removal of the matched driver fails after DriverAssigned
\* was published, the handler ends as after a removal that worked: its
\* message stays acknowledged, the event stays on driver.assigned, nothing
\* is undone, and the driver is still in the Geo-Index, where it was.
T_C31 ==
    [][(mCur.pc = "remove" /\ zremRes'.op = "remove" /\ zremRes'.err # NoErr
          /\ MatcherRemoveFail)
          => /\ mCur' = Idle /\ mOff' = mOff
             /\ driverAssigned' = driverAssigned
             /\ \E i \in 1..Len(driverAssigned) :
                   driverAssigned[i] = [trip |-> mCur.ev.trip,
                                        driver |-> mCur.driver]
             /\ rideRequested' = rideRequested /\ goPub' = goPub
             /\ trips' = trips
             /\ geo' = geo /\ geo[mCur.driver] # Absent]_vars

\* the removal of a matched driver failed, and the handler of a later
\* request, for another trip, was matched to that driver and published
W_C31 ==
    /\ zremRes.op = "remove" /\ zremRes.err # NoErr
    /\ mCur.pc = "remove" /\ mCur.driver = zremRes.driver
    /\ \E i, j \in 1..Len(driverAssigned) :
          /\ i < j
          /\ driverAssigned[i].driver = zremRes.driver
          /\ driverAssigned[j] = [trip |-> mCur.ev.trip, driver |-> mCur.driver]
          /\ driverAssigned[i].trip # mCur.ev.trip

T_C33 ==
    /\ \A b \in InProgress : b \notin hubMu
    /\ \A b \in BcastSlots :
          bcasts[b].pc = "write"
              => /\ \A c \in ConnIds :
                       sockets[c].st = "open" => ENABLED HandleWSLeave(c)
                 /\ (\E c \in ConnIds : sockets[c].st = "none")
                       => \A t \in TripIds : ENABLED HandleWS(t)

\* with a write in progress on a connection, another connection of the
\* snapshot has left and one that is not in the snapshot has joined the trip
W_C33 ==
    \E b \in BcastSlots :
        /\ bcasts[b].pc = "write"
        /\ \E c \in ConnIds :
              /\ c # bcasts[b].cur
              /\ sockets[c].st \in {"removed", "closed"}
              /\ \E k \in 1..bcasts[b].snap.len : bcasts[b].seen[k] = c
        /\ \E c \in Subscribed(bcasts[b].trip) :
              \A k \in 1..bcasts[b].snap.len : bcasts[b].seen[k] # c

\* the list Hub.conns holds for a trip
ListOf(t) == Elems(backing, SliceOf(t))

\* C34: whatever the interleaving of connects, disconnects and broadcasts,
\* the list of each trip holds the connections that connected for that trip
\* and were not removed yet, each of them once and in no other list; no
\* step of a broadcast changes a list.
T_C34 ==
    [][/\ \A t \in TripIds :
            /\ {ListOf(t)[k] : k \in 1..Len(ListOf(t))} = Subscribed(t)
            /\ Len(ListOf(t)) = Cardinality(Subscribed(t))
       /\ \A t \in DOMAIN hubConns : t \in TripIds
       /\ bcasts' # bcasts
            => /\ hubConns' = hubConns
               /\ \A t \in TripIds : ListOf(t)' = ListOf(t)]_vars

\* with a broadcast in progress for it that has written, a trip has two
\* connections in its list, one of them added after the snapshot, and one
\* of the snapshot has left
W_C34 ==
    \E b \in InProgress :
        /\ Cardinality(Subscribed(bcasts[b].trip)) = 2
        /\ \E c \in ConnIds :
              /\ sockets[c].st \in {"removed", "closed"}
              /\ \E k \in 1..bcasts[b].snap.len : bcasts[b].seen[k] = c
        /\ \E c \in Subscribed(bcasts[b].trip) :
              \A k \in 1..bcasts[b].snap.len : bcasts[b].seen[k] # c
        /\ Len(bcasts[b].done) > 0

\* the handler of the matcher returns an error in this step
HandlerError ==
    \/ mCur = Idle /\ mOff' = mOff + 1 /\ UnmarshalFails(rideRequested[mOff])
    \/ mCur.pc = "publish" /\ mCur'.pc # "remove" /\ mCur' # mCur

\* the most messages ride.requested gets
MaxTopicLen == Len(TripOrder) + MaxMalformed

\* C35: a handler error does not stop the consumer: after it the loop is
\* back at its read with the offset where it was; messages are handed to
\* the handler in order and one at a time; and every message of the topic
\* is handed to the handler, unless the context is cancelled first.
T_C35 ==
    /\ [][/\ mOff' \in {mOff, mOff + 1}
          /\ (mOff' = mOff + 1) => (mCur = Idle /\ ~ctxDone)
          /\ HandlerError => (mCur' = Idle /\ ctxDone' = ctxDone)]_vars
    /\ \A i \in 1..MaxTopicLen :
          (Len(rideRequested) >= i) ~> (mOff > i \/ ctxDone)

\* after the handler returned an error on a payload that does not decode,
\* the next message is in the hands of the handler
W_C35 ==
    /\ ~ctxDone
    /\ mCur.pc = "query" /\ mOff > 2
    /\ mCur.ev = rideRequested[mOff - 1]
    /\ UnmarshalFails(rideRequested[mOff - 2])

Active(t) == trips[t].status \in {StatusDriverAssigned, StatusStarted}

\* C36: no driver is the driver of two trips that are active (DRIVER_ASSIGNED
\* or STARTED) at once, whatever the interleaving of location pushes,
\* matching and manual assignment.
CE_C36 ==
    \A t, u \in DOMAIN trips :
        (t # u /\ Active(t) /\ Active(u)) => trips[t].driver # trips[u].driver

\* C37: a driver the matcher took out of the Geo-Index for a trip becomes
\* the driver of that trip: once the consumer has handled the event of the
\* last match, whose removal took the driver out, the trip is
\* DRIVER_ASSIGNED with that driver.
CE_C37 ==
    LET n == Len(driverAssigned)
    IN (/\ n > 0 /\ n \in Handled
        /\ mCur.pc # "remove"
        /\ zremRes.op = "remove" /\ zremRes.err = NoErr /\ zremRes.had
        /\ zremRes.driver = driverAssigned[n].driver)
           => /\ trips[driverAssigned[n].trip].driver = driverAssigned[n].driver
              /\ trips[driverAssigned[n].trip].status = StatusDriverAssigned

\* C38: trip.completed holds at most one event for a trip, whatever the
\* interleaving of End calls, and once no End call is in flight for the
\* trip the fare of its event is the fare of its COMPLETED row.
CE_C38 ==
    /\ \A e \in BagToSet(tripCompleted) :
          /\ CopiesIn(e, tripCompleted) = 1
          /\ \A f \in BagToSet(tripCompleted) : f.trip = e.trip => f = e
    /\ \A e \in BagToSet(tripCompleted) :
          (\A call \in BagToSet(ends) : call.trip # e.trip)
              => /\ trips[e.trip].status = StatusCompleted
                 /\ ToDecimal2(e.fare) = trips[e.trip].fare

\* C39: in every state the fields of a trip agree with its status: it has
\* a driver exactly when it is DRIVER_ASSIGNED, STARTED or COMPLETED, a
\* start time exactly when it is STARTED or COMPLETED, a fare and a
\* completion time exactly when it is COMPLETED.
T_C39 ==
    \A t \in DOMAIN trips :
        /\ trips[t].status \in {StatusRequested, StatusDriverAssigned,
                                 StatusStarted, StatusCompleted}
        /\ trips[t].driver # NoDriver
              <=> trips[t].status \in {StatusDriverAssigned, StatusStarted,
                                       StatusCompleted}
        /\ trips[t].startedAt # NoTime
              <=> trips[t].status \in {StatusStarted, StatusCompleted}
        /\ trips[t].fare # NoFare <=> trips[t].status = StatusCompleted
        /\ trips[t].completedAt # NoTime <=> trips[t].status = StatusCompleted

\* a trip the consumer assigned was started and two End calls completed it
W_C39 ==
    \E t \in DOMAIN trips :
        /\ trips[t].status = StatusCompleted
        /\ trips[t].driver \in Drivers /\ trips[t].fare # NoFare
        /\ trips[t].startedAt # NoTime /\ trips[t].completedAt # NoTime
        /\ \E i \in Handled :
              driverAssigned[i] = [trip |-> t, driver |-> trips[t].driver]
        /\ BagCardinality(goPub (+) tripCompleted) = 2
        /\ ends = EmptyBag

\* C40: no write is attempted on a connection that its read loop has
\* removed from the Hub and closed: a broadcast that runs while a
\* connection disconnects does not enter writeJSON on it afterwards.
CE_C40 ==
    [][\A b \in BcastSlots :
          (bcasts[b].pc = "loop" /\ bcasts'[b].pc = "write")
              => sockets[bcasts'[b].cur].st # "closed"]_vars

====
